---- MODULE Spec2Model ----
(***************************************************************************)
(* mqtt_pub and mqtt_sub: two command line tools around libmosquitto.      *)
(* Each tool parses its argument vector into a struct context              *)
(* (context_init), then either prints usage or drives a fixed sequence of  *)
(* libmosquitto calls (mqtt_pub / mqtt_sub), and returns ctx.exit_code     *)
(* from context_cleanup.                                                   *)
(*                                                                         *)
(* The libmosquitto calls, getopt_long, the signal source and errno are    *)
(* the environment: every library call may succeed or fail, a handled      *)
(* signal may arrive between any two steps, and the broker may deliver any *)
(* message.                                                                *)
(***************************************************************************)
EXTENDS Integers, Sequences, FiniteSets, TLC

VARIABLES
    tool,                   \* which executable runs: "pub" or "sub"
    argv,                   \* argv[0..argc-1] as the sequence argv[1..argc]
    pc,                     \* position of the main path
    optind,                 \* getopt's scan position (C index into argv)
    ctx,                    \* struct context
    rc,                     \* local rc of mqtt_pub / mqtt_sub
    errno,                  \* the C library's errno
    g_shutdown_requested,   \* mqtt_sub.c:177
    handlers,               \* signals whose disposition is on_shutdown_requested
    lib,                    \* libmosquitto: "none", "init", "clean"
    mosq,                   \* the client handle: "none", "live", "destroyed"
    on_message,             \* message callback registered on the handle
    calls,                  \* history of libmosquitto calls, in call order
    delivered,              \* history of the messages mosquitto_loop dispatched
    out,                    \* what was written to standard output, in order
    exit_status             \* the wait status of the process once it ended

vars == <<tool, argv, pc, optind, ctx, rc, errno, g_shutdown_requested,
          handlers, lib, mosq, on_message, calls, delivered, out, exit_status>>

(***************************************************************************)
(* Bounds of the model.                                                    *)
(***************************************************************************)
\* items (a flag, or a flag with its value) on the command line, parser runs
MaxItems == 2
\* fragments on the command line, whole-program runs
MaxRunItems == 2
\* mosquitto_loop calls that the receive loop may start while no shutdown is pending
MaxLoopCalls == 2
\* messages the broker delivers in one run
MaxMessages == 2
\* items on the command line, runs under fairness
MaxFairItems == 1
\* items on the command line, runs up to mosquitto_connect
MaxConnectItems == 3

(***************************************************************************)
(* Program constants.                                                      *)
(***************************************************************************)
EXIT_SUCCESS == 0
EXIT_FAILURE == 1
MOSQ_ERR_SUCCESS == 0
MQTT_DEFAULT_PORT == 1883
MQTT_KEEPALIVE == 60 * 1000
MQTT_QOS == 0
LOOP_INTERVAL == 1000

\* the results other than MOSQ_ERR_SUCCESS that a libmosquitto call reports
MosqErrors == {7}
\* the values errno may hold
EINTR == "EINTR"
ErrnoValues == {"0", EINTR}

\* exit_status while the process runs, and after SIGSEGV killed it (as a
\* shell reports it)
NoStatus == 0 - 1
KilledBySegv == 128 + 11

NULL == "<NULL>"
COMMAND_PUB == "COMMAND_PUB"
COMMAND_SUB == "COMMAND_SUB"
COMMAND_SHOW_HELP == "COMMAND_SHOW_HELP"

Tools == {"pub", "sub"}

\* the command a tool performs when the parser does not select usage
Command(t) == IF t = "pub" THEN COMMAND_PUB ELSE COMMAND_SUB
ProgName(t) == IF t = "pub" THEN "mqtt_pub" ELSE "mqtt_sub"

(***************************************************************************)
(* getopt_long.  A token of the command line is a string.  The tokens that *)
(* begin with '-' are listed here with their parts, since a string has no  *)
(* characters in TLA+: "-c" is a short option, "--name" a long option,     *)
(* "--name=value" a long option with an attached value, "--" the end of    *)
(* the options.  Every other token is an operand or an option's value.     *)
(* Clustered short options ("-rt"), attached short values ("-ttest") and   *)
(* abbreviated long names are outside the token alphabet.                  *)
(***************************************************************************)
ShortTokens ==
    ("-i" :> "i") @@ ("-h" :> "h") @@ ("-p" :> "p") @@ ("-u" :> "u") @@
    ("-P" :> "P") @@ ("-r" :> "r") @@ ("-t" :> "t") @@ ("-m" :> "m") @@
    ("-H" :> "H") @@ ("-x" :> "x")

LongTokens ==
    ("--client-id" :> "client-id") @@ ("--host" :> "host") @@
    ("--port" :> "port") @@ ("--user" :> "user") @@
    ("--password" :> "password") @@ ("--retain" :> "retain") @@
    ("--topic" :> "topic") @@ ("--message" :> "message") @@
    ("--help" :> "help") @@ ("--bogus" :> "bogus")

LongEqTokens ==
    ("--topic=T1" :> [name |-> "topic", value |-> "T1"])

EndOfOptions == "--"

IsOptionToken(tok) ==
    \/ tok \in DOMAIN ShortTokens
    \/ tok \in DOMAIN LongTokens
    \/ tok \in DOMAIN LongEqTokens
    \/ tok = EndOfOptions

\* the short option string "i:h:p:u:P:rt:m:H", one character per element
OptString ==
    <<"i", ":", "h", ":", "p", ":", "u", ":", "P", ":", "r", "t", ":",
      "m", ":", "H">>

InOptString(c) == c # ":" /\ \E k \in 1..Len(OptString) : OptString[k] = c

RequiresArgument(c) ==
    \E k \in 1..(Len(OptString) - 1) : OptString[k] = c /\ OptString[k + 1] = ":"

no_argument == 0

\* struct option long_opts[]
LongOptsPub ==
    << [name |-> "client-id", has_arg |-> no_argument, val |-> "i"],
       [name |-> "host",      has_arg |-> no_argument, val |-> "h"],
       [name |-> "port",      has_arg |-> no_argument, val |-> "p"],
       [name |-> "user",      has_arg |-> no_argument, val |-> "u"],
       [name |-> "password",  has_arg |-> no_argument, val |-> "P"],
       [name |-> "retain",    has_arg |-> no_argument, val |-> "r"],
       [name |-> "topic",     has_arg |-> no_argument, val |-> "t"],
       [name |-> "message",   has_arg |-> no_argument, val |-> "m"],
       [name |-> "help",      has_arg |-> no_argument, val |-> "H"] >>

LongOptsSub ==
    << [name |-> "client-id", has_arg |-> no_argument, val |-> "i"],
       [name |-> "host",      has_arg |-> no_argument, val |-> "h"],
       [name |-> "port",      has_arg |-> no_argument, val |-> "p"],
       [name |-> "user",      has_arg |-> no_argument, val |-> "u"],
       [name |-> "password",  has_arg |-> no_argument, val |-> "P"],
       [name |-> "retain",    has_arg |-> no_argument, val |-> "r"],
       [name |-> "topic",     has_arg |-> no_argument, val |-> "t"],
       [name |-> "help",      has_arg |-> no_argument, val |-> "H"] >>

LongOpts(t) == IF t = "pub" THEN LongOptsPub ELSE LongOptsSub

\* what getopt_long returns at the end of the options, and for an option it rejects
GETOPT_END == "-1"
GETOPT_UNKNOWN == "?"

\* getopt's permutation: operands are passed over; C index of the next option
\* token at or after i, or argc when there is none
RECURSIVE NextOptionIndex(_, _)
NextOptionIndex(av, i) ==
    IF i >= Len(av) THEN Len(av)
    ELSE IF IsOptionToken(av[i + 1]) THEN i
    ELSE NextOptionIndex(av, i + 1)

\* a long option "--name" (attached = NULL) or "--name=value", looked up in
\* long_opts; an entry that is not no_argument takes the attached value or
\* else the next element of argv
GetoptLongName(t, av, name, attached, j) ==
    LET opts == LongOpts(t)
        hit  == {k \in 1..Len(opts) : opts[k].name = name}
    IN  IF hit = {}
        THEN [c |-> GETOPT_UNKNOWN, optarg |-> NULL, optind |-> j + 1]
        ELSE LET o == opts[CHOOSE k \in hit : TRUE]
             IN  IF o.has_arg = no_argument
                 THEN IF attached # NULL
                      THEN [c |-> GETOPT_UNKNOWN, optarg |-> NULL, optind |-> j + 1]
                      ELSE [c |-> o.val, optarg |-> NULL, optind |-> j + 1]
                 ELSE IF attached # NULL
                 THEN [c |-> o.val, optarg |-> attached, optind |-> j + 1]
                 ELSE IF j + 1 >= Len(av)
                 THEN [c |-> GETOPT_UNKNOWN, optarg |-> NULL, optind |-> j + 1]
                 ELSE [c |-> o.val, optarg |-> av[j + 2], optind |-> j + 2]

\* a short option "-c", looked up in the option string
GetoptShort(av, c, j) ==
    IF ~InOptString(c)
    THEN [c |-> GETOPT_UNKNOWN, optarg |-> NULL, optind |-> j + 1]
    ELSE IF ~RequiresArgument(c)
    THEN [c |-> c, optarg |-> NULL, optind |-> j + 1]
    ELSE IF j + 1 >= Len(av)
    THEN [c |-> GETOPT_UNKNOWN, optarg |-> NULL, optind |-> j + 1]
    ELSE [c |-> c, optarg |-> av[j + 2], optind |-> j + 2]

\* one call getopt_long(argc, argv, "i:h:p:u:P:rt:m:H", long_opts, ..) with
\* the scan at C index ind (optind = 0 restarts the scan at 1)
GetoptLong(t, av, ind) ==
    LET start == IF ind = 0 THEN 1 ELSE ind
        j     == NextOptionIndex(av, start)
    IN  IF j >= Len(av)
        THEN [c |-> GETOPT_END, optarg |-> NULL, optind |-> Len(av)]
        ELSE LET tok == av[j + 1]
             IN  IF tok = EndOfOptions
                 THEN [c |-> GETOPT_END, optarg |-> NULL, optind |-> j + 1]
                 ELSE IF tok \in DOMAIN LongTokens
                 THEN GetoptLongName(t, av, LongTokens[tok], NULL, j)
                 ELSE IF tok \in DOMAIN LongEqTokens
                 THEN GetoptLongName(t, av, LongEqTokens[tok].name,
                                     LongEqTokens[tok].value, j)
                 ELSE GetoptShort(av, ShortTokens[tok], j)

(***************************************************************************)
(* context_init.                                                           *)
(***************************************************************************)
\* strdup of a string that is there
Strdup(s) == s

\* atoi: the leading decimal digits of the string, 0 when there are none
Atoi(s) ==
    CASE s = "8883" -> 8883
      [] s = "18x"  -> 18
      [] OTHER      -> 0

\* strdup(NULL) and atoi(NULL) dereference a null pointer: the behaviour is
\* undefined.  The process is killed, or the call returns with some value.
INDETERMINATE == "<indeterminate>"
StrdupNullValues == {NULL, INDETERMINATE}
AtoiNullValues == {0, -1}

\* struct context before context_init assigned it
UninitializedContext ==
    [id |-> INDETERMINATE, user |-> INDETERMINATE, password |-> INDETERMINATE,
     host |-> INDETERMINATE, port |-> INDETERMINATE, topic |-> INDETERMINATE,
     message |-> INDETERMINATE, retain |-> INDETERMINATE,
     cmd |-> INDETERMINATE, exit_code |-> INDETERMINATE]

\* defaults that leave the broker's address open and take the TLS port
ContextDefaults_NoBroker(t) ==
    [id |-> NULL, user |-> NULL, password |-> NULL,
     host |-> NULL, port |-> 8883, topic |-> NULL,
     message |-> NULL, retain |-> FALSE,
     cmd |-> Command(t), exit_code |-> EXIT_SUCCESS]

\* the assignments that open context_init (mqtt_sub has no message field: it
\* stays NULL there)
ContextDefaults(t) ==
    [id |-> NULL, user |-> NULL, password |-> NULL,
     host |-> Strdup("localhost"), port |-> MQTT_DEFAULT_PORT, topic |-> NULL,
     message |-> NULL, retain |-> FALSE,
     cmd |-> Command(t), exit_code |-> EXIT_SUCCESS]

\* the case labels of the switch that read optarg, with the field they assign
ValueCases(t) ==
    IF t = "pub"
    THEN ("i" :> "id") @@ ("h" :> "host") @@ ("p" :> "port") @@ ("u" :> "user")
         @@ ("P" :> "password") @@ ("t" :> "topic") @@ ("m" :> "message")
    ELSE ("i" :> "id") @@ ("h" :> "host") @@ ("p" :> "port") @@ ("u" :> "user")
         @@ ("P" :> "password") @@ ("t" :> "topic")

\* case 'H'
HelpCase(cx) == [cx EXCEPT !.cmd = COMMAND_SHOW_HELP]

\* a default: that forgets the exit code
DefaultCase_KeepsExitCode(cx) == [cx EXCEPT !.cmd = COMMAND_SHOW_HELP]

\* default: of the switch
DefaultCase(cx) ==
    [cx EXCEPT !.exit_code = EXIT_FAILURE, !.cmd = COMMAND_SHOW_HELP]

\* the switch on getopt_long's result c; v is the value strdup or atoi gave
SwitchCase(t, cx, c, v) ==
    IF c = GETOPT_END THEN cx
    ELSE IF c \in DOMAIN ValueCases(t) THEN [cx EXCEPT ![ValueCases(t)[c]] = v]
    ELSE IF c = "r" THEN [cx EXCEPT !.retain = TRUE]
    ELSE IF c = "H" THEN HelpCase(cx)
    ELSE DefaultCase(cx)

\* whether the case sets done
SetsDone(t, c) ==
    ~(c \in DOMAIN ValueCases(t) \/ c = "r")

\* the values the case may store from optarg
StoredValues(c, optarg) ==
    IF optarg # NULL
    THEN {IF c = "p" THEN Atoi(optarg) ELSE Strdup(optarg)}
    ELSE IF c = "p" THEN AtoiNullValues ELSE StrdupNullValues

\* a check that does not ask for the message
MissingRequired_TopicOnly(t, cx) ==
    /\ cx.cmd = Command(t)
    /\ cx.topic = NULL

\* the check of the required fields that ends context_init
MissingRequired(t, cx) ==
    /\ cx.cmd = Command(t)
    /\ \/ cx.topic = NULL
       \/ t = "pub" /\ cx.message = NULL

RequiredCheck(t, cx) ==
    IF MissingRequired(t, cx)
    THEN [cx EXCEPT !.exit_code = EXIT_FAILURE, !.cmd = COMMAND_SHOW_HELP]
    ELSE cx

\* context_init up to the loop: the defaults, optind = 0
ContextInitDefaults ==
    /\ pc = "main"
    /\ ctx' = ContextDefaults(tool)
    /\ optind' = 0
    /\ pc' = "getopt"
    /\ UNCHANGED <<tool, argv, rc, errno, g_shutdown_requested, handlers, lib,
                   mosq, on_message, calls, delivered, out, exit_status>>

\* one iteration of the while (!done) loop
GetoptStep ==
    /\ pc = "getopt"
    /\ LET g == GetoptLong(tool, argv, optind)
       IN  /\ optind' = g.optind
           /\ IF g.c \in DOMAIN ValueCases(tool)
              THEN \/ /\ \E v \in StoredValues(g.c, g.optarg) :
                            ctx' = SwitchCase(tool, ctx, g.c, v)
                      /\ pc' = "getopt"
                      /\ UNCHANGED exit_status
                   \/ /\ g.optarg = NULL
                      /\ pc' = "crashed"
                      /\ exit_status' = KilledBySegv
                      /\ UNCHANGED ctx
              ELSE /\ ctx' = SwitchCase(tool, ctx, g.c, NULL)
                   /\ pc' = IF SetsDone(tool, g.c) THEN "required" ELSE "getopt"
                   /\ UNCHANGED exit_status
    /\ UNCHANGED <<tool, argv, rc, errno, g_shutdown_requested, handlers, lib,
                   mosq, on_message, calls, delivered, out>>

\* the end of context_init
ContextInitReturn ==
    /\ pc = "required"
    /\ ctx' = RequiredCheck(tool, ctx)
    /\ pc' = "switch"
    /\ UNCHANGED <<tool, argv, optind, rc, errno, g_shutdown_requested, handlers,
                   lib, mosq, on_message, calls, delivered, out, exit_status>>

(***************************************************************************)
(* main: the switch on ctx.cmd, print_usage, context_cleanup.              *)
(***************************************************************************)
\* where the session runner of tool t starts
RunnerEntry(t) == IF t = "pub" THEN "lib_init" ELSE "signal_int"

\* a switch without the usage case
MainSwitchTarget_AlwaysRuns(t, cx) == RunnerEntry(t)

\* the switch in main: the runner's entry, or "print_usage"
MainSwitchTarget(t, cx) ==
    IF cx.cmd = Command(t) THEN RunnerEntry(t) ELSE "print_usage"

MainSwitch ==
    /\ pc = "switch"
    /\ pc' = MainSwitchTarget(tool, ctx)
    /\ UNCHANGED <<tool, argv, optind, ctx, rc, errno, g_shutdown_requested,
                   handlers, lib, mosq, on_message, calls, delivered, out,
                   exit_status>>

PrintUsage ==
    /\ pc = "print_usage"
    /\ out' = Append(out, [kind |-> "usage"])
    /\ pc' = "context_cleanup"
    /\ UNCHANGED <<tool, argv, optind, ctx, rc, errno, g_shutdown_requested,
                   handlers, lib, mosq, on_message, calls, delivered,
                   exit_status>>

\* context_cleanup frees the strings and returns ctx.exit_code, which main returns
ContextCleanup ==
    /\ pc = "context_cleanup"
    /\ exit_status' = ctx.exit_code
    /\ pc' = "exit"
    /\ UNCHANGED <<tool, argv, optind, ctx, rc, errno, g_shutdown_requested,
                   handlers, lib, mosq, on_message, calls, delivered, out>>

(***************************************************************************)
(* The session runners mqtt_pub and mqtt_sub.  Both run the same calls up  *)
(* to mosquitto_connect and release the handle and the library the same    *)
(* way, so the two share those positions.                                  *)
(***************************************************************************)
\* an entry of the call history: the call, its arguments, whether it reported
\* success, and g_shutdown_requested when the call started
Call(op, args, ok) ==
    [op |-> op, args |-> args, ok |-> ok, shut |-> g_shutdown_requested,
     returned |-> TRUE]

\* the calls whose error ends the sequence with ctx->exit_code = EXIT_FAILURE
FatalCalls ==
    {"lib_init", "new", "pw_set", "connect", "publish", "subscribe"}

\* every error sets the exit code, that of mosquitto_unsubscribe too
ExitCodeAfter_AnyError(at, ok, code) == IF ~ok THEN EXIT_FAILURE ELSE code

\* a call that succeeds clears an earlier failure
ExitCodeAfter_ResetsOnSuccess(at, ok, code) ==
    IF ~ok /\ at \in FatalCalls THEN EXIT_FAILURE ELSE EXIT_SUCCESS

\* ctx->exit_code after the call at position `at` reported ok, from code
ExitCodeAfter(at, ok, code) ==
    IF ~ok /\ at \in FatalCalls THEN EXIT_FAILURE ELSE code

\* a failed call that does nothing but go on to the release of what exists
FailureTarget_SkipsDestroy(at) ==
    IF at = "lib_init" THEN "context_cleanup" ELSE "lib_cleanup"

\* the position after the call at position `at` reported an error: the
\* return of the runner, after the release of what was acquired so far
FailureTarget(at) ==
    CASE at = "lib_init"     -> "context_cleanup"
      [] at = "new"          -> "lib_cleanup"
      [] at = "pw_set"       -> "destroy"
      [] at = "connect"      -> "destroy"
      [] at = "publish"      -> "destroy"
      [] at = "subscribe"    -> "destroy"
      [] at = "unsubscribe"  -> "destroy"

\* the callback registered only once the connection stands
SuccessTarget_CallbackAfterConnect(t, at) ==
    CASE at = "lib_init"     -> "new"
      [] at = "new"          -> "pw_set"
      [] at = "pw_set"       -> "connect"
      [] at = "connect"      -> IF t = "pub" THEN "publish" ELSE "callback_set"
      [] at = "callback_set" -> "subscribe"
      [] at = "publish"      -> "destroy"
      [] at = "subscribe"    -> "loop_test"
      [] at = "unsubscribe"  -> "destroy"
      [] at = "destroy"      -> "lib_cleanup"
      [] at = "lib_cleanup"  -> "context_cleanup"

\* the position after the call at position `at` reported success
SuccessTarget(t, at) ==
    CASE at = "lib_init"     -> "new"
      [] at = "new"          -> "pw_set"
      [] at = "pw_set"       -> IF t = "pub" THEN "connect" ELSE "callback_set"
      [] at = "callback_set" -> "connect"
      [] at = "connect"      -> IF t = "pub" THEN "publish" ELSE "subscribe"
      [] at = "publish"      -> "destroy"
      [] at = "subscribe"    -> "loop_test"
      [] at = "unsubscribe"  -> "destroy"
      [] at = "destroy"      -> "lib_cleanup"
      [] at = "lib_cleanup"  -> "context_cleanup"

\* a failed call that is made again
NextPc_Retry(t, at, ok) == IF ok THEN SuccessTarget(t, at) ELSE at

\* the position after the call at position `at` reported ok
NextPc(t, at, ok) == IF ok THEN SuccessTarget(t, at) ELSE FailureTarget(at)

\* a library call at position `at` that returns a result code
ResultCall(at, op, args) ==
    /\ pc = at
    /\ \E r \in {MOSQ_ERR_SUCCESS} \cup MosqErrors :
          LET ok == (r = MOSQ_ERR_SUCCESS)
          IN  /\ rc' = r
              /\ calls' = Append(calls, Call(op, args, ok))
              /\ ctx' = [ctx EXCEPT !.exit_code = ExitCodeAfter(at, ok, @)]
              /\ pc' = NextPc(tool, at, ok)
              /\ lib' = IF at = "lib_init" /\ ok THEN "init" ELSE lib

\* a library call at position `at` that returns nothing
VoidCall(at, op, args) ==
    /\ pc = at
    /\ calls' = Append(calls, Call(op, args, TRUE))
    /\ pc' = NextPc(tool, at, TRUE)

MosquittoLibInit ==
    /\ ResultCall("lib_init", "mosquitto_lib_init", <<>>)
    /\ UNCHANGED <<tool, argv, optind, errno, g_shutdown_requested, handlers,
                   mosq, on_message, delivered, out, exit_status>>

\* mosquitto_new(ctx->id, true, NULL) returns the handle or NULL
MosquittoNew ==
    /\ pc = "new"
    /\ \E ok \in BOOLEAN :
          /\ calls' = Append(calls, Call("mosquitto_new", <<ctx.id, TRUE, NULL>>, ok))
          /\ mosq' = IF ok THEN "live" ELSE mosq
          /\ ctx' = [ctx EXCEPT !.exit_code = ExitCodeAfter("new", ok, @)]
          /\ pc' = NextPc(tool, "new", ok)
    /\ UNCHANGED <<tool, argv, optind, rc, errno, g_shutdown_requested, handlers,
                   lib, on_message, delivered, out, exit_status>>

MosquittoUsernamePwSet ==
    /\ ResultCall("pw_set", "mosquitto_username_pw_set", <<ctx.user, ctx.password>>)
    /\ UNCHANGED <<tool, argv, optind, errno, g_shutdown_requested, handlers,
                   mosq, on_message, delivered, out, exit_status>>

MosquittoConnect ==
    /\ ResultCall("connect", "mosquitto_connect",
                  <<ctx.host, ctx.port, MQTT_KEEPALIVE>>)
    /\ UNCHANGED <<tool, argv, optind, errno, g_shutdown_requested, handlers,
                   mosq, on_message, delivered, out, exit_status>>

\* a publish that does not pass the retain flag on
PublishArgs_NoRetain(cx) ==
    <<NULL, cx.topic, Len(cx.message), cx.message, MQTT_QOS, FALSE>>

\* the arguments of the one mosquitto_publish call, after the handle
PublishArgs(cx) ==
    <<NULL, cx.topic, Len(cx.message), cx.message, MQTT_QOS, cx.retain>>

MosquittoPublish ==
    /\ ResultCall("publish", "mosquitto_publish", PublishArgs(ctx))
    /\ UNCHANGED <<tool, argv, optind, errno, g_shutdown_requested, handlers,
                   mosq, on_message, delivered, out, exit_status>>

MosquittoDestroy ==
    /\ VoidCall("destroy", "mosquitto_destroy", <<>>)
    /\ mosq' = "destroyed"
    /\ UNCHANGED <<tool, argv, optind, ctx, rc, errno, g_shutdown_requested,
                   handlers, lib, on_message, delivered, out, exit_status>>

MosquittoLibCleanup ==
    /\ VoidCall("lib_cleanup", "mosquitto_lib_cleanup", <<>>)
    /\ lib' = "clean"
    /\ UNCHANGED <<tool, argv, optind, ctx, rc, errno, g_shutdown_requested,
                   handlers, mosq, on_message, delivered, out, exit_status>>

(***************************************************************************)
(* mqtt_sub: the signal handlers, the message callback, the receive loop.  *)
(***************************************************************************)
\* a handler in which SIGTERM withdraws the request
OnShutdownRequested_SigtermCancels(signal_number) == signal_number = "SIGINT"

\* on_shutdown_requested: the value it stores in g_shutdown_requested
OnShutdownRequested(signal_number) == TRUE

\* a signal arrives whose disposition is on_shutdown_requested.  (A signal
\* that still has its default disposition ends the process from outside.)
\* The flag is a plain static bool; every read of it in the receive loop is
\* separated from the next by a call into the library, so each iteration
\* reads the stored value.
Signal ==
    /\ exit_status = NoStatus
    /\ \E sig \in handlers : g_shutdown_requested' = OnShutdownRequested(sig)
    /\ UNCHANGED <<tool, argv, pc, optind, ctx, rc, errno, handlers, lib, mosq,
                   on_message, calls, delivered, out, exit_status>>

\* signal(SIGINT, &on_shutdown_requested)
InstallSigint ==
    /\ pc = "signal_int"
    /\ handlers' = handlers \cup {"SIGINT"}
    /\ pc' = "signal_term"
    /\ UNCHANGED <<tool, argv, optind, ctx, rc, errno, g_shutdown_requested, lib,
                   mosq, on_message, calls, delivered, out, exit_status>>

\* signal(SIGTERM, &on_shutdown_requested)
InstallSigterm ==
    /\ pc = "signal_term"
    /\ handlers' = handlers \cup {"SIGTERM"}
    /\ pc' = "lib_init"
    /\ UNCHANGED <<tool, argv, optind, ctx, rc, errno, g_shutdown_requested, lib,
                   mosq, on_message, calls, delivered, out, exit_status>>

MosquittoMessageCallbackSet ==
    /\ VoidCall("callback_set", "mosquitto_message_callback_set", <<"mqtt_on_message">>)
    /\ on_message' = TRUE
    /\ UNCHANGED <<tool, argv, optind, ctx, rc, errno, g_shutdown_requested,
                   handlers, lib, mosq, delivered, out, exit_status>>

\* the one mosquitto_subscribe call.  errno is read once, after the receive
\* loop; the library call that ran last before that read is this one or
\* mosquitto_loop, and either may leave any value in errno.
MosquittoSubscribe ==
    /\ ResultCall("subscribe", "mosquitto_subscribe", <<NULL, ctx.topic, MQTT_QOS>>)
    /\ errno' \in ErrnoValues
    /\ UNCHANGED <<tool, argv, optind, g_shutdown_requested, handlers, mosq,
                   on_message, delivered, out, exit_status>>

\* the bytes of a payload are one-character strings; NUL is the zero byte
NUL == "\\0"
EmptyMarker == <<"<", "e", "m", "p", "t", "y", ">">>

\* what printf's %.*s writes: at most n bytes of s, up to the first NUL
RECURSIVE PrintfPrecS(_, _)
PrintfPrecS(n, s) ==
    IF n <= 0 \/ s = <<>> \/ Head(s) = NUL THEN <<>>
    ELSE <<Head(s)>> \o PrintfPrecS(n - 1, Tail(s))

\* the test of the payload length off by one
PayloadLine_ZeroPrinted(message) ==
    IF 0 <= message.payloadlen
    THEN PrintfPrecS(message.payloadlen, message.payload)
    ELSE EmptyMarker

\* the payload line of mqtt_on_message, after "payload   : "
PayloadLine(message) ==
    IF 0 < message.payloadlen
    THEN PrintfPrecS(message.payloadlen, message.payload)
    ELSE EmptyMarker

\* the block mqtt_on_message prints for one message
MqttOnMessage(message) ==
    [kind     |-> "message",
     id       |-> message.mid,
     topic    |-> message.topic,
     retained |-> IF message.retain THEN "yes" ELSE "no",
     payload  |-> PayloadLine(message)]

\* the messages the broker may deliver: an empty one, one with a zero byte
\* in its payload, one whose payload reads "<empty>"
Messages ==
    { [mid |-> 0, topic |-> "T1", retain |-> FALSE, payloadlen |-> 0,
       payload |-> <<>>],
      [mid |-> 1, topic |-> "T1", retain |-> TRUE, payloadlen |-> 4,
       payload |-> <<"h", "i", NUL, "x">>],
      [mid |-> 0, topic |-> "T1", retain |-> FALSE, payloadlen |-> 7,
       payload |-> EmptyMarker] }

MessageSeqs(n) == UNION {[1..k -> Messages] : k \in 0..n}

\* the blocks printed for the messages ms, when the callback is registered
RECURSIVE Dispatch(_, _)
Dispatch(registered, ms) ==
    IF ms = <<>> \/ ~registered THEN <<>>
    ELSE <<MqttOnMessage(Head(ms))>> \o Dispatch(registered, Tail(ms))

NumLoopCalls == Cardinality({k \in 1..Len(calls) : calls[k].op = "mosquitto_loop"})

\* a loop that does not look at the shutdown flag
LoopCondition_IgnoresShutdown(r, shutdown) == (r = MOSQ_ERR_SUCCESS)

\* the condition of the while loop
LoopCondition(r, shutdown) == (r = MOSQ_ERR_SUCCESS) /\ ~shutdown

\* the test of the while loop
LoopTest ==
    /\ pc = "loop_test"
    /\ IF LoopCondition(rc, g_shutdown_requested)
       THEN NumLoopCalls < MaxLoopCalls /\ pc' = "loop_call"
       ELSE pc' = "loop_exit"
    /\ UNCHANGED <<tool, argv, optind, ctx, rc, errno, g_shutdown_requested,
                   handlers, lib, mosq, on_message, calls, delivered, out,
                   exit_status>>

\* mosquitto_loop(mosq, LOOP_INTERVAL, 1) is entered
MosquittoLoopCall ==
    /\ pc = "loop_call"
    /\ calls' = Append(calls, [Call("mosquitto_loop", <<LOOP_INTERVAL, 1>>, TRUE)
                               EXCEPT !.returned = FALSE])
    /\ pc' = "in_loop"
    /\ UNCHANGED <<tool, argv, optind, ctx, rc, errno, g_shutdown_requested,
                   handlers, lib, mosq, on_message, delivered, out, exit_status>>

\* mosquitto_loop returns, within its timeout: it dispatched the messages
\* that arrived to the callback, in their order, and reports its result
MosquittoLoopReturn ==
    /\ pc = "in_loop"
    /\ \E r \in {MOSQ_ERR_SUCCESS} \cup MosqErrors,
          ms \in MessageSeqs(MaxMessages - Len(delivered)) :
          /\ rc' = r
          /\ calls' = [calls EXCEPT ![Len(calls)].ok = (r = MOSQ_ERR_SUCCESS),
                                    ![Len(calls)].returned = TRUE]
          /\ delivered' = delivered \o ms
          /\ out' = out \o Dispatch(on_message, ms)
    /\ errno' \in ErrnoValues
    /\ pc' = "loop_test"
    /\ UNCHANGED <<tool, argv, optind, ctx, g_shutdown_requested, handlers, lib,
                   mosq, on_message, exit_status>>

\* ctx->exit_code after the if that follows the loop
LoopExitCode(r, e, code) ==
    IF (MOSQ_ERR_SUCCESS = r) /\ (e # EINTR) THEN EXIT_FAILURE ELSE code

LoopExit ==
    /\ pc = "loop_exit"
    /\ ctx' = [ctx EXCEPT !.exit_code = LoopExitCode(rc, errno, @)]
    /\ pc' = "unsubscribe"
    /\ UNCHANGED <<tool, argv, optind, rc, errno, g_shutdown_requested, handlers,
                   lib, mosq, on_message, calls, delivered, out, exit_status>>

MosquittoUnsubscribe ==
    /\ ResultCall("unsubscribe", "mosquitto_unsubscribe", <<NULL, ctx.topic>>)
    /\ UNCHANGED <<tool, argv, optind, errno, g_shutdown_requested, handlers,
                   mosq, on_message, delivered, out, exit_status>>

(***************************************************************************)
(* The command lines the model runs.                                       *)
(***************************************************************************)
\* a flag, a flag with its value, or an operand
ParseItems ==
    { <<"-t", "T1">>, <<"-t", "T2">>, <<"-m", "M1">>, <<"-h", "H1">>,
      <<"-p", "8883">>, <<"-p", "18x">>, <<"-i", "I1">>, <<"-u", "U1">>,
      <<"-P", "W1">>, <<"-r">>, <<"-H">>, <<"-x">>, <<"-t">>,
      <<"--topic", "T1">>, <<"--message", "M1">>, <<"--host", "H1">>,
      <<"--port", "8883">>, <<"--client-id", "I1">>, <<"--user", "U1">>,
      <<"--password", "W1">>, <<"--retain">>, <<"--help">>, <<"--bogus">>,
      <<"--topic=T1">>, <<"--">>, <<"T1">> }

\* fragments of a command line: the topic, the topic and the message, flags
RunItems ==
    { <<"-t", "T1">>, <<"-t", "T1", "-m", "M1">>, <<"-r">>, <<"-H">>, <<"-x">> }

FairItems ==
    { <<"-t", "T1">>, <<"-t", "T1", "-m", "M1">>, <<"-H">> }

RECURSIVE Flatten(_)
Flatten(ss) == IF ss = <<>> THEN <<>> ELSE Head(ss) \o Flatten(Tail(ss))

ItemSeqs(items, n) == UNION {[1..k -> items] : k \in 0..n}

\* argv of tool t with the items laid out after the program name
ArgVectors(t, items, n) == {<<ProgName(t)>> \o Flatten(s) : s \in ItemSeqs(items, n)}

InitWith(items, n) ==
    /\ tool \in Tools
    /\ argv \in ArgVectors(tool, items, n)
    /\ pc = "main"
    /\ optind = 1
    /\ ctx = UninitializedContext
    /\ rc = MOSQ_ERR_SUCCESS
    /\ errno = "0"
    /\ g_shutdown_requested = FALSE
    /\ handlers = {}
    /\ lib = "none"
    /\ mosq = "none"
    /\ on_message = FALSE
    /\ calls = <<>>
    /\ delivered = <<>>
    /\ out = <<>>
    /\ exit_status = NoStatus

InitParser == InitWith(ParseItems, MaxItems)

NextParser ==
    \/ ContextInitDefaults
    \/ GetoptStep
    \/ ContextInitReturn

SpecParser == InitParser /\ [][NextParser]_vars

Init == InitWith(RunItems, MaxRunItems)

\* the steps of the main path
Main ==
    \/ ContextInitDefaults
    \/ GetoptStep
    \/ ContextInitReturn
    \/ MainSwitch
    \/ PrintUsage
    \/ ContextCleanup
    \/ InstallSigint
    \/ InstallSigterm
    \/ MosquittoLibInit
    \/ MosquittoNew
    \/ MosquittoUsernamePwSet
    \/ MosquittoMessageCallbackSet
    \/ MosquittoConnect
    \/ MosquittoPublish
    \/ MosquittoSubscribe
    \/ LoopTest
    \/ MosquittoLoopCall
    \/ MosquittoLoopReturn
    \/ LoopExit
    \/ MosquittoUnsubscribe
    \/ MosquittoDestroy
    \/ MosquittoLibCleanup

Next == Main \/ Signal

Spec == Init /\ [][Next]_vars

InitFair == InitWith(FairItems, MaxFairItems)

\* the main path is a running thread and every library call returns
\* (mosquitto_loop after LOOP_INTERVAL at the latest)
FairSpec == InitFair /\ [][Next]_vars /\ WF_vars(Main)

\* command lines with and without a host and a port
ConnectItems ==
    { <<"-t", "T1">>, <<"-t", "T1", "-m", "M1">>, <<"-h", "H1">>,
      <<"-p", "8883">>, <<"--port", "8883">>, <<"-H">> }

InitConnect == InitWith(ConnectItems, MaxConnectItems)

\* the steps of the main path up to the return of mosquitto_connect
NextConnect ==
    \/ ContextInitDefaults
    \/ GetoptStep
    \/ ContextInitReturn
    \/ MainSwitch
    \/ InstallSigint
    \/ InstallSigterm
    \/ MosquittoLibInit
    \/ MosquittoNew
    \/ MosquittoUsernamePwSet
    \/ MosquittoMessageCallbackSet
    \/ MosquittoConnect

SpecConnect == InitConnect /\ [][NextConnect]_vars

(***************************************************************************)
(* What a command line holds, and what the call history holds.             *)
(***************************************************************************)
\* every result getopt_long gives for av when the scan is run to its end
RECURSIVE ScanAll(_, _, _)
ScanAll(t, av, ind) ==
    LET g == GetoptLong(t, av, ind)
    IN  IF g.c = GETOPT_END THEN <<>> ELSE <<g>> \o ScanAll(t, av, g.optind)

Scanned(t, av) == ScanAll(t, av, 0)

\* the command line carries the flag with option character c
HasFlag(t, av, c) == \E k \in 1..Len(Scanned(t, av)) : Scanned(t, av)[k].c = c

\* the command line carries the flag with option character c, with a value
Supplies(t, av, c) ==
    \E k \in 1..Len(Scanned(t, av)) :
        Scanned(t, av)[k].c = c /\ Scanned(t, av)[k].optarg # NULL

\* a flag the tool does not know (for mqtt_sub that includes -m), or one
\* that getopt_long rejects
Unrecognized(t, c) ==
    ~(c \in DOMAIN ValueCases(t) \/ c = "r" \/ c = "H")

HasUnrecognized(t, av) ==
    \E k \in 1..Len(Scanned(t, av)) : Unrecognized(t, Scanned(t, av)[k].c)

\* a help flag comes before every unrecognized flag of the command line
HelpComesFirst(t, av) ==
    \E k \in 1..Len(Scanned(t, av)) :
        /\ Scanned(t, av)[k].c = "H"
        /\ \A j \in 1..(k - 1) : ~Unrecognized(t, Scanned(t, av)[j].c)

\* the positions in the call history of the calls of op
CallsOf(op) == {k \in 1..Len(calls) : calls[k].op = op}
FailedCallsOf(op) == {k \in CallsOf(op) : calls[k].returned /\ ~calls[k].ok}
OkCallsOf(op) == {k \in CallsOf(op) : calls[k].returned /\ calls[k].ok}
AllCallsOk == \A k \in 1..Len(calls) : calls[k].returned /\ calls[k].ok

ReleaseOps == {"mosquitto_destroy", "mosquitto_lib_cleanup"}

\* the calls whose first argument is the client handle
HandleOps ==
    {"mosquitto_username_pw_set", "mosquitto_message_callback_set",
     "mosquitto_connect", "mosquitto_publish", "mosquitto_subscribe",
     "mosquitto_loop", "mosquitto_unsubscribe", "mosquitto_destroy"}

(***************************************************************************)
(* C1: when library init, handle creation, credential setup, connect,      *)
(* subscribe or publish reports an error, no call other than the release   *)
(* of the handle and of the library follows it (no later step, no retry),  *)
(* and the process exits with failure.                                     *)
(***************************************************************************)
SequenceOps ==
    {"mosquitto_lib_init", "mosquitto_new", "mosquitto_username_pw_set",
     "mosquitto_connect", "mosquitto_subscribe", "mosquitto_publish"}

C1_ErrorIsTerminal ==
    \A k \in 1..Len(calls) :
        (calls[k].op \in SequenceOps /\ ~calls[k].ok) =>
            /\ \A j \in (k + 1)..Len(calls) : calls[j].op \in ReleaseOps
            /\ ctx.exit_code = EXIT_FAILURE
            /\ pc = "exit" => exit_status = EXIT_FAILURE

C1_Witness ==
    /\ pc = "exit"
    /\ tool = "sub"
    /\ FailedCallsOf("mosquitto_subscribe") # {}
    /\ exit_status = EXIT_FAILURE

(***************************************************************************)
(* C2: in mqtt_sub, when mosquitto_loop reports an error the receive loop  *)
(* ends and the process exits with failure.                                *)
(***************************************************************************)
C2_LoopErrorFails ==
    \A k \in FailedCallsOf("mosquitto_loop") :
        /\ \A j \in (k + 1)..Len(calls) : calls[j].op # "mosquitto_loop"
        /\ pc = "exit" => exit_status = EXIT_FAILURE

(***************************************************************************)
(* C3: every handle that was created is destroyed exactly once and every   *)
(* successful library init is followed by exactly one library cleanup when *)
(* the process exits; the destroy precedes the cleanup; no call uses the   *)
(* handle after it was destroyed.                                          *)
(***************************************************************************)
C3_ResourcesReleased ==
    /\ Cardinality(CallsOf("mosquitto_destroy"))
           <= Cardinality(OkCallsOf("mosquitto_new"))
    /\ Cardinality(CallsOf("mosquitto_lib_cleanup"))
           <= Cardinality(OkCallsOf("mosquitto_lib_init"))
    /\ pc = "exit" =>
          /\ Cardinality(CallsOf("mosquitto_destroy"))
                 = Cardinality(OkCallsOf("mosquitto_new"))
          /\ Cardinality(CallsOf("mosquitto_lib_cleanup"))
                 = Cardinality(OkCallsOf("mosquitto_lib_init"))
          /\ mosq \in {"none", "destroyed"}
          /\ lib \in {"none", "clean"}
    /\ \A d \in CallsOf("mosquitto_destroy") :
          /\ \A c \in CallsOf("mosquitto_lib_cleanup") : d < c
          /\ \A j \in (d + 1)..Len(calls) : calls[j].op \notin HandleOps

C3_Witness ==
    /\ pc = "exit"
    /\ FailedCallsOf("mosquitto_connect") # {}
    /\ Cardinality(CallsOf("mosquitto_destroy")) = 1
    /\ Cardinality(CallsOf("mosquitto_lib_cleanup")) = 1

(***************************************************************************)
(* C4: in mqtt_sub, once a signal has set the shutdown flag while the      *)
(* receive loop runs, at most one mosquitto_loop call is started with the  *)
(* flag set, and the loop exits, unsubscribe is attempted, the handle and  *)
(* the library are released and the process ends.                          *)
(***************************************************************************)
LoopPositions == {"loop_test", "loop_call", "in_loop"}

LoopCallsStartedAfterShutdown == {k \in CallsOf("mosquitto_loop") : calls[k].shut}

C4_ShutdownEndsLoop ==
    /\ [](Cardinality(LoopCallsStartedAfterShutdown) <= 1)
    /\ (g_shutdown_requested /\ pc \in LoopPositions)
           ~> /\ pc = "exit"
              /\ CallsOf("mosquitto_unsubscribe") # {}
              /\ mosq = "destroyed"
              /\ lib = "clean"

C4_Witness ==
    /\ pc = "exit"
    /\ Cardinality(LoopCallsStartedAfterShutdown) = 1
    /\ Cardinality(CallsOf("mosquitto_loop")) = 2
    /\ CallsOf("mosquitto_unsubscribe") # {}

(***************************************************************************)
(* C5, as stated: for every mqtt_pub command line that supplies a topic    *)
(* and a message, when every library call succeeds there is exactly one    *)
(* publish call (configured topic, message as payload, QoS 0, configured   *)
(* retain flag) and the exit status is success.                            *)
(***************************************************************************)
PublishCallsAreConfigured ==
    \A k \in CallsOf("mosquitto_publish") :
        /\ calls[k].args
               = <<NULL, ctx.topic, Len(ctx.message), ctx.message, 0, ctx.retain>>
        /\ ctx.retain = HasFlag(tool, argv, "r")

C5_Original ==
    (/\ pc = "exit"
     /\ tool = "pub"
     /\ Supplies(tool, argv, "t")
     /\ Supplies(tool, argv, "m")
     /\ AllCallsOk)
        => /\ Cardinality(CallsOf("mosquitto_publish")) = 1
           /\ PublishCallsAreConfigured
           /\ exit_status = EXIT_SUCCESS

(***************************************************************************)
(* C5, amended: for every mqtt_pub command line for which the parser       *)
(* selects the publish action (topic and message supplied, no help flag    *)
(* and no unrecognized flag scanned), when every library call succeeds     *)
(* there is exactly one publish call, with the configured topic, the       *)
(* message as payload, QoS 0 and the retain flag (true exactly when the    *)
(* retain flag was given), and the exit status is success; no run has more *)
(* than one publish call.                                                  *)
(***************************************************************************)
C5_PublishOnce ==
    /\ Cardinality(CallsOf("mosquitto_publish")) <= 1
    /\ PublishCallsAreConfigured
    /\ (/\ pc = "exit"
        /\ tool = "pub"
        /\ ctx.cmd = COMMAND_PUB
        /\ AllCallsOk)
           => /\ Cardinality(CallsOf("mosquitto_publish")) = 1
              /\ exit_status = EXIT_SUCCESS

C5_Witness ==
    /\ pc = "exit"
    /\ tool = "pub"
    /\ AllCallsOk
    /\ HasFlag(tool, argv, "r")
    /\ Cardinality(CallsOf("mosquitto_publish")) = 1
    /\ calls[CHOOSE k \in CallsOf("mosquitto_publish") : TRUE].args
           = <<NULL, "T1", 2, "M1", 0, TRUE>>
    /\ exit_status = EXIT_SUCCESS

(***************************************************************************)
(* C6, as stated: for every command line without a topic (either tool) or  *)
(* without a message (mqtt_pub), whatever its other flags, help included,  *)
(* the parser yields show-usage and exit status failure.                   *)
(***************************************************************************)
RequiredAbsent(t, av) ==
    \/ ~HasFlag(t, av, "t")
    \/ t = "pub" /\ ~HasFlag(t, av, "m")

Crashed == [crashed |-> TRUE, ctx |-> UninitializedContext]
Returned(cx) == [crashed |-> FALSE, ctx |-> cx]

RECURSIVE ParseOutcomes(_, _, _, _)
ParseOutcomes(t, av, cx, ind) ==
    LET g == GetoptLong(t, av, ind)
    IN  IF g.c \in DOMAIN ValueCases(t)
        THEN UNION {ParseOutcomes(t, av, SwitchCase(t, cx, g.c, v), g.optind) :
                        v \in StoredValues(g.c, g.optarg)}
             \cup (IF g.optarg = NULL THEN {Crashed} ELSE {})
        ELSE IF SetsDone(t, g.c)
        THEN {Returned(RequiredCheck(t, SwitchCase(t, cx, g.c, NULL)))}
        ELSE ParseOutcomes(t, av, SwitchCase(t, cx, g.c, NULL), g.optind)

ContextInit(t, av) == ParseOutcomes(t, av, ContextDefaults(t), 0)

\* the outcome of context_init in the current state
ParserOutcome == IF pc = "crashed" THEN Crashed ELSE Returned(ctx)

\* the short spelling of a flag given in its long spelling
ShortSpellings ==
    ("--client-id" :> "-i") @@ ("--host" :> "-h") @@ ("--port" :> "-p") @@
    ("--user" :> "-u") @@ ("--password" :> "-P") @@ ("--retain" :> "-r") @@
    ("--topic" :> "-t") @@ ("--message" :> "-m") @@ ("--help" :> "-H")

\* the command line with every flag that is given in its long spelling
\* replaced by its short spelling (a token that is the value of a flag stays)
RECURSIVE ShortSpellingFrom(_, _, _)
ShortSpellingFrom(t, av, ind) ==
    LET j == NextOptionIndex(av, ind)
    IN  IF j >= Len(av) THEN av
        ELSE LET tok == av[j + 1]
                 respelled == IF tok \in DOMAIN ShortSpellings
                              THEN [av EXCEPT ![j + 1] = ShortSpellings[tok]]
                              ELSE av
                 g == GetoptLong(t, respelled, j)
             IN  IF g.c = GETOPT_END THEN respelled
                 ELSE ShortSpellingFrom(t, respelled, g.optind)

ShortSpelling(t, av) == ShortSpellingFrom(t, av, 1)

(***************************************************************************)
(* C8: a flag in its long spelling yields the same configuration record,   *)
(* action selector and exit status as in its short spelling; a long flag   *)
(* that takes a value receives it.                                         *)
(***************************************************************************)
C8_LongEqualsShort ==
    pc \in {"switch", "crashed"}
        => ParserOutcome \in ContextInit(tool, ShortSpelling(tool, argv))

(***************************************************************************)
(* C9: in mqtt_sub, when the receive loop has exited, unsubscribe is       *)
(* attempted exactly once, before the handle is destroyed, and its outcome *)
(* does not change the exit status.                                        *)
(***************************************************************************)
AfterUnsubscribe == {"destroy", "lib_cleanup", "context_cleanup", "exit"}

UnsubscribedOnce ==
    /\ Cardinality(CallsOf("mosquitto_unsubscribe")) <= 1
    /\ (pc \in AfterUnsubscribe /\ OkCallsOf("mosquitto_subscribe") # {})
           => Cardinality(CallsOf("mosquitto_unsubscribe")) = 1
    /\ \A u \in CallsOf("mosquitto_unsubscribe") :
          /\ calls[u].args = <<NULL, ctx.topic>>
          /\ CallsOf("mosquitto_loop") \cup OkCallsOf("mosquitto_subscribe") # {}
          /\ \A k \in CallsOf("mosquitto_loop") : k < u
          /\ \A d \in CallsOf("mosquitto_destroy") : u < d

C9_UnsubscribeKeepsExitStatus ==
    /\ [](tool = "sub" => UnsubscribedOnce)
    /\ [][pc = "unsubscribe" => ctx'.exit_code = ctx.exit_code]_vars

C9_Witness ==
    /\ pc = "exit"
    /\ FailedCallsOf("mosquitto_unsubscribe") # {}
    /\ CallsOf("mosquitto_destroy") # {}
    /\ exit_status = EXIT_SUCCESS

(***************************************************************************)
(* C10, as stated: for every mqtt_sub command line that supplies a topic   *)
(* there is at most one subscribe call (exactly one once init, handle      *)
(* creation, credential setup and connect succeeded), for the configured   *)
(* topic at QoS 0; each delivered message gives exactly one output block   *)
(* with its id, topic, retained state and payload, in delivery order, and  *)
(* the payload line is "<empty>" exactly when the payload length is zero.  *)
(***************************************************************************)
SubscribedOnce ==
    /\ Cardinality(CallsOf("mosquitto_subscribe")) <= 1
    /\ (OkCallsOf("mosquitto_connect") # {} /\ pc # "subscribe")
           => Cardinality(CallsOf("mosquitto_subscribe")) = 1
    /\ \A k \in CallsOf("mosquitto_subscribe") :
           calls[k].args = <<NULL, ctx.topic, 0>>

\* the message blocks on standard output, in the order they were written
IsMessageBlock(b) == b.kind = "message"
Blocks == SelectSeq(out, IsMessageBlock)

\* the k-th block on standard output is that of the k-th delivered message
BlockOf(k) ==
    /\ Blocks[k].id = delivered[k].mid
    /\ Blocks[k].topic = delivered[k].topic
    /\ Blocks[k].retained = (IF delivered[k].retain THEN "yes" ELSE "no")

C10_Original ==
    (tool = "sub" /\ Supplies(tool, argv, "t")) =>
        /\ SubscribedOnce
        /\ Len(Blocks) = Len(delivered)
        /\ \A k \in 1..Len(delivered) :
              /\ BlockOf(k)
              /\ (Blocks[k].payload = EmptyMarker) = (delivered[k].payloadlen = 0)

(***************************************************************************)
(* C10, amended: as stated, except for the payload line: it is "<empty>"   *)
(* whenever the payload length is zero, and otherwise it is the payload's  *)
(* bytes up to its first zero byte, so that a payload that itself reads    *)
(* "<empty>" gives the same line as an empty one.                          *)
(***************************************************************************)
\* the bytes of s before its first zero byte
RECURSIVE UpToNul(_)
UpToNul(s) ==
    IF s = <<>> \/ Head(s) = NUL THEN <<>> ELSE <<Head(s)>> \o UpToNul(Tail(s))

C10_SubscribeOnceAndPrintEach ==
    (tool = "sub" /\ Supplies(tool, argv, "t")) =>
        /\ SubscribedOnce
        /\ Len(Blocks) = Len(delivered)
        /\ \A k \in 1..Len(delivered) :
              /\ BlockOf(k)
              /\ delivered[k].payloadlen = 0 => Blocks[k].payload = EmptyMarker
              /\ delivered[k].payloadlen > 0 =>
                    Blocks[k].payload
                        = UpToNul(SubSeq(delivered[k].payload, 1,
                                         delivered[k].payloadlen))

C10_Witness ==
    /\ tool = "sub"
    /\ Cardinality(CallsOf("mosquitto_subscribe")) = 1
    /\ Len(delivered) = 2
    /\ delivered[1].payloadlen = 0
    /\ delivered[2].payloadlen = 4
    /\ out = << [kind |-> "message", id |-> 0, topic |-> "T1", retained |-> "no",
                 payload |-> EmptyMarker],
                [kind |-> "message", id |-> 1, topic |-> "T1", retained |-> "yes",
                 payload |-> <<"h", "i">>] >>

(***************************************************************************)
(* Reorderings of a command line.                                          *)
(***************************************************************************)
\* the values of the occurrences of the flag with option character c among
\* the scan results s, in their order
RECURSIVE ValuesOf(_, _)
ValuesOf(s, c) ==
    IF s = <<>> THEN <<>>
    ELSE IF Head(s).c = c THEN <<Head(s).optarg>> \o ValuesOf(Tail(s), c)
    ELSE ValuesOf(Tail(s), c)

OptionChars(t, av) == {Scanned(t, av)[k].c : k \in 1..Len(Scanned(t, av))}

\* a and b hold the same flag occurrences (every flag with the same values,
\* the occurrences of one flag in the same order)
SameOccurrences(t, a, b) ==
    /\ OptionChars(t, a) = OptionChars(t, b)
    /\ \A c \in OptionChars(t, a) :
           ValuesOf(Scanned(t, a), c) = ValuesOf(Scanned(t, b), c)

\* av with the tokens after the program name in the order f
Reorder(av, f) ==
    [k \in 1..Len(av) |-> IF k = 1 THEN av[1] ELSE av[1 + f[k - 1]]]

\* the command lines that hold the flag occurrences of av in another order
Reorderings(t, av) ==
    {b \in {Reorder(av, f) : f \in Permutations(1..(Len(av) - 1))} :
        SameOccurrences(t, av, b)}

(***************************************************************************)
(* C11: parsing is order-independent.  For any two command lines that hold *)
(* the same flag occurrences in a different order (the occurrences of one  *)
(* flag in the same relative order) the parser yields the same             *)
(* configuration fields, action selector and exit status.                  *)
(***************************************************************************)
C11_OrderIndependent ==
    pc = "switch" =>
        \A b \in Reorderings(tool, argv) : Returned(ctx) \in ContextInit(tool, b)

(***************************************************************************)
(* The value a flag occurrence carries on the command line: the value      *)
(* getopt_long hands over in optarg, or else (a long spelling, which       *)
(* getopt_long gives no value) the token that follows the flag.            *)
(***************************************************************************)
OccurrenceValue(av, g) ==
    IF g.optarg # NULL THEN g.optarg
    ELSE IF g.optind < Len(av) THEN av[g.optind + 1]
    ELSE NULL

\* the positions among the scan results of the occurrences of the flag c
OccurrencesOf(t, av, c) ==
    {k \in 1..Len(Scanned(t, av)) : Scanned(t, av)[k].c = c}

Last(S) == CHOOSE k \in S : \A j \in S : j <= k

\* what the field of flag c holds when it stores the text s
FieldValue(c, s) == IF c = "p" THEN Atoi(s) ELSE Strdup(s)

(***************************************************************************)
(* C12: when a value-taking flag (client id, host, port, user, password,   *)
(* topic, message) occurs more than once on the command line, its          *)
(* configuration field holds the value of its last occurrence.             *)
(***************************************************************************)
C12_LastOccurrenceWins ==
    pc = "switch" =>
        \A c \in DOMAIN ValueCases(tool) :
            Cardinality(OccurrencesOf(tool, argv, c)) > 1 =>
                ctx[ValueCases(tool)[c]]
                    = FieldValue(c, OccurrenceValue(argv,
                          Scanned(tool, argv)[Last(OccurrencesOf(tool, argv, c))]))

(***************************************************************************)
(* A second call of context_init on the same command line.  getopt's scan  *)
(* position is where the first call left it (ind); context_init assigns    *)
(* every field and sets optind = 0 before it scans.                        *)
(***************************************************************************)
ContextInitAgain(t, av, ind) ==
    LET optind_at_entry == ind
        optind_for_scan == 0
    IN  ParseOutcomes(t, av, ContextDefaults(t), optind_for_scan)

(***************************************************************************)
(* C13: parsing is idempotent.  A second run of the parser on the same     *)
(* command line, started from the option scanner state the first run left, *)
(* yields the same configuration record, action selector and exit status   *)
(* as the first.                                                           *)
(***************************************************************************)
C13_Idempotent ==
    pc = "switch" =>
        \A o \in ContextInitAgain(tool, argv, optind) : o = Returned(ctx)

(***************************************************************************)
(* C14: for every command line without a host flag the configured host is  *)
(* "localhost" and for every command line without a port flag the          *)
(* configured port is 1883, and these are the values mosquitto_connect is  *)
(* called with.                                                            *)
(***************************************************************************)
ParserPositions == {"main", "getopt", "required", "crashed"}

\* the fields context_init has assigned: all of them once it passed the defaults
Configured == pc # "main"

C14_DefaultHostAndPort ==
    /\ (Configured /\ ~HasFlag(tool, argv, "h")) =>
          /\ ctx.host = "localhost"
          /\ \A k \in CallsOf("mosquitto_connect") : calls[k].args[1] = "localhost"
    /\ (Configured /\ ~HasFlag(tool, argv, "p")) =>
          /\ ctx.port = 1883
          /\ \A k \in CallsOf("mosquitto_connect") : calls[k].args[2] = 1883
    /\ \A k \in CallsOf("mosquitto_connect") :
          /\ calls[k].args[1] = ctx.host
          /\ calls[k].args[2] = ctx.port

C14_Witness ==
    /\ ~HasFlag(tool, argv, "h")
    /\ ~HasFlag(tool, argv, "p")
    /\ OkCallsOf("mosquitto_connect") # {}
    /\ calls[CHOOSE k \in CallsOf("mosquitto_connect") : TRUE].args[1] = "localhost"
    /\ calls[CHOOSE k \in CallsOf("mosquitto_connect") : TRUE].args[2] = 1883

(***************************************************************************)
(* C15: in every mqtt_sub run that reaches mosquitto_connect the message   *)
(* callback has been registered on the handle before connect is called:    *)
(* no state has the client connected (or subscribed) without a registered  *)
(* callback.                                                               *)
(***************************************************************************)
C15_CallbackBeforeConnect ==
    tool = "sub" =>
        /\ (pc = "connect" \/ CallsOf("mosquitto_connect") # {}
              \/ CallsOf("mosquitto_subscribe") # {}) => on_message
        /\ \A k \in CallsOf("mosquitto_connect") \cup CallsOf("mosquitto_subscribe") :
              \E j \in CallsOf("mosquitto_message_callback_set") :
                  /\ j < k
                  /\ calls[j].args = <<"mqtt_on_message">>
        /\ Len(Blocks) = Len(delivered)

C15_Witness ==
    /\ tool = "sub"
    /\ on_message
    /\ OkCallsOf("mosquitto_connect") # {}
    /\ OkCallsOf("mosquitto_subscribe") # {}
    /\ Len(delivered) > 0
    /\ Len(Blocks) = Len(delivered)

(***************************************************************************)
(* C16: in both tools every mosquitto_connect call passes a keep-alive     *)
(* interval of 60 (the argument is in seconds), whatever the command line. *)
(***************************************************************************)
C16_KeepAliveIs60Seconds ==
    \A k \in CallsOf("mosquitto_connect") : calls[k].args[3] = 60

(***************************************************************************)
(* C17: once the parser has returned, no step changes a configuration      *)
(* field (client id, user, password, host, port, topic, message, retain,   *)
(* action selector); the exit status changes only from success to failure. *)
(***************************************************************************)
ConfigFields ==
    {"id", "user", "password", "host", "port", "topic", "message", "retain", "cmd"}

C17_RunnerKeepsConfiguration ==
    [][pc \notin ParserPositions =>
          /\ \A f \in ConfigFields : ctx'[f] = ctx[f]
          /\ ctx'.exit_code # ctx.exit_code =>
                /\ ctx.exit_code = EXIT_SUCCESS
                /\ ctx'.exit_code = EXIT_FAILURE]_vars

C17_Witness ==
    /\ pc = "exit"
    /\ tool = "pub"
    /\ FailedCallsOf("mosquitto_publish") # {}
    /\ ctx.cmd = COMMAND_PUB
    /\ ctx.topic = "T1"
    /\ ctx.message = "M1"
    /\ ctx.exit_code = EXIT_FAILURE

(***************************************************************************)
(* C18: in mqtt_sub a signal changes nothing but the shutdown flag, which  *)
(* it sets: the step makes no library call and leaves the configuration    *)
(* and the exit status alone; the flag is never reset; unsubscribe and the *)
(* release of the handle and the library are made by the main path, after  *)
(* the loop.                                                               *)
(***************************************************************************)
C18_SignalOnlySetsFlag ==
    /\ [][g_shutdown_requested => g_shutdown_requested']_vars
    /\ [][g_shutdown_requested' # g_shutdown_requested =>
             /\ g_shutdown_requested'
             /\ UNCHANGED <<tool, argv, pc, optind, ctx, rc, errno, handlers, lib,
                            mosq, on_message, calls, delivered, out, exit_status>>]_vars
    /\ [](tool = "sub" =>
            \A u \in CallsOf("mosquitto_unsubscribe") \cup CallsOf("mosquitto_destroy")
                       \cup CallsOf("mosquitto_lib_cleanup") :
                /\ pc \in AfterUnsubscribe
                /\ \A k \in CallsOf("mosquitto_loop") : k < u /\ calls[k].returned)

C18_Witness ==
    /\ tool = "sub"
    /\ g_shutdown_requested
    /\ pc = "subscribe"
    /\ ctx.exit_code = EXIT_SUCCESS
    /\ exit_status = NoStatus
    /\ CallsOf("mosquitto_unsubscribe") \cup CallsOf("mosquitto_destroy") = {}
    /\ OkCallsOf("mosquitto_connect") # {}

(***************************************************************************)
(* C19: when the parser yields show-usage no library call is made, usage   *)
(* is printed exactly once and the process exits with the exit status the  *)
(* parser set; when it yields the tool's action, the session runner runs   *)
(* exactly once, with a topic (and for mqtt_pub a message), and usage is   *)
(* not printed.                                                            *)
(***************************************************************************)
UsageCount == Cardinality({k \in 1..Len(out) : out[k].kind = "usage"})

C19_UsageOrAction ==
    pc \notin ParserPositions =>
        /\ ctx.cmd = COMMAND_SHOW_HELP =>
              /\ calls = <<>>
              /\ handlers = {}
              /\ UsageCount <= 1
              /\ pc = "exit" =>
                    /\ UsageCount = 1
                    /\ Returned(ctx) \in ContextInit(tool, argv)
                    /\ exit_status = ctx.exit_code
        /\ ctx.cmd # COMMAND_SHOW_HELP =>
              /\ ctx.cmd = Command(tool)
              /\ UsageCount = 0
              /\ ctx.topic # NULL
              /\ tool = "pub" => ctx.message # NULL
              /\ Cardinality(CallsOf("mosquitto_lib_init")) <= 1
              /\ pc = "exit" => Cardinality(CallsOf("mosquitto_lib_init")) = 1

C19_Witness ==
    /\ pc = "exit"
    /\ ctx.cmd = COMMAND_SHOW_HELP
    /\ HasUnrecognized(tool, argv)
    /\ calls = <<>>
    /\ out = <<[kind |-> "usage"]>>
    /\ exit_status = EXIT_FAILURE

(***************************************************************************)
(* C20: in mqtt_sub, when the receive loop ends because the shutdown flag  *)
(* was seen set (also when it was set before the first iteration) and no   *)
(* library call reported an error, the process exits with success,         *)
(* whatever value errno holds.                                             *)
(***************************************************************************)
C20_ShutdownExitsWithSuccess ==
    (/\ pc = "exit"
     /\ tool = "sub"
     /\ g_shutdown_requested
     /\ CallsOf("mosquitto_unsubscribe") # {}
     /\ AllCallsOk)
        => exit_status = EXIT_SUCCESS

====
